---- MODULE Spec2Model ----
(***************************************************************************)
(* Model of litestar's dependency provider (litestar/di.py, class Provide) *)
(* and of the ASGI route handler (litestar/handlers/asgi_handlers.py,      *)
(* class ASGIRouteHandler).                                                *)
(*                                                                         *)
(* Optional values are sequences: <<>> is Python's None, <<x>> is x.       *)
(* Mappings are functions over a finite key set, sequences are sequences.  *)
(***************************************************************************)
EXTENDS Integers, Sequences, FiniteSets, TLC

(***************************************************************************)
(* Bounds                                                                  *)
(***************************************************************************)
\* number of invocations of Provide.__call__ in one behaviour
MaxCalls == 3
\* number of calls of Provide.finalize in one behaviour
MaxFinalize == 2

None == <<>>
Some(x) == <<x>>

(***************************************************************************)
(* Provide: the dependencies a provider can be given                       *)
(***************************************************************************)
\* what the function (or, for a class, its __call__) is
FnKinds == {"plain", "coroutine", "generator", "asyncgen"}

\* a dependency object: a non-callable value, a function, or a class
Dependencies ==
    {[callable |-> FALSE, isclass |-> FALSE, kind |-> "plain"]}
    \cup {[callable |-> TRUE, isclass |-> c, kind |-> k] : c \in BOOLEAN, k \in FnKinds}

\* sync_to_thread: True, False or None (unspecified)
SyncToThreadArgs == {Some(TRUE), Some(FALSE), None}

\* the sentinel litestar.types.Empty and the legal results of a dependency
Empty == "Empty"
Results == {"None", "a", "b"}
Raise == "raise"
GeneratorObject == "generator-object"
\* an awaitable that was made by a call and was not awaited
CoroutineObject == "coroutine-object"

\* keyword arguments of one invocation
Kwargs == {"k1", "k2"}

\* the provider instances and the invocations (tasks) of a behaviour
ProvIds == {"p", "q"}
Tasks == 1 .. MaxCalls

isclass(dependency) == dependency.isclass
isgeneratorfunction(f) == f.callable /\ f.kind = "generator"
isasyncgenfunction(f) == f.callable /\ f.kind = "asyncgen"
\* litestar.utils.predicates.is_async_callable: a coroutine function, or a
\* callable whose __call__ is a coroutine function
is_async_callable(value) == value.callable /\ value.kind = "coroutine"

\* litestar.utils.ensure_async_callable: a new AsyncCallable adapter around
\* fn; adapter is the identity of the new object (adapters compare by
\* identity), named after the provider it is made for
ensure_async_callable(fn, adapter) == [wrapped |-> TRUE, adapter |-> adapter, func |-> fn]
\* the dependency stored as it was given
Unwrapped(fn) == [wrapped |-> FALSE, adapter |-> "", func |-> fn]
\* litestar.utils.helpers.unwrap_partial: the callable inside a partial or
\* an AsyncCallable adapter
unwrap_partial(value) == value.func

\* a test for "was given" instead of the truth value
bool_is_not_none(opt) == opt # None

\* the truth value of an optional boolean
bool(opt) == opt = Some(TRUE)

\* the fields of a provider for which no instance exists (yet)
NoProvider ==
    [exists |-> FALSE,
     dependency |-> Unwrapped([callable |-> FALSE, isclass |-> FALSE, kind |-> "plain"]),
     has_sync_generator_dependency |-> FALSE,
     has_async_generator_dependency |-> FALSE,
     has_sync_callable |-> FALSE,
     sync_to_thread |-> FALSE,
     use_cache |-> FALSE,
     value |-> Empty,
     parsed_fn_signature |-> None,
     signature_model |-> None]

\* the warning Provide.__init__ emits, "" when it emits none
InitWarning(has_generator_dependency, has_sync_callable, sync_to_thread) ==
    IF sync_to_thread # None
    THEN IF has_generator_dependency THEN "sync_to_thread_with_generator"
         ELSE IF ~has_sync_callable THEN "sync_to_thread_with_async_callable"
         ELSE ""
    ELSE IF has_sync_callable /\ ~has_generator_dependency THEN "implicit_sync_to_thread"
         ELSE ""

\* only synchronous generators counted as generator dependencies
HasGeneratorDependencySyncOnly(has_sync_gen, has_async_gen) == has_sync_gen

\* "has_generator_dependency = self.has_sync_generator_dependency or
\* self.has_async_generator_dependency"
HasGeneratorDependency(has_sync_gen, has_async_gen) == has_sync_gen \/ has_async_gen

\* an offload that leaves the provider classified synchronous
KeepsHasSyncCallable(offload, has_sync_callable) == has_sync_callable

\* "self.has_sync_callable = False" when offloading, else
\* "self.has_sync_callable = has_sync_callable"
StoredHasSyncCallable(offload, has_sync_callable) ==
    IF offload THEN FALSE ELSE has_sync_callable

\* a classification that looks at the __call__ of a class
HasSyncCallableByCall(is_class_dependency, dependency) == ~is_async_callable(dependency)

\* whether calling the dependency runs synchronous code: a class is
\* instantiated, anything else is synchronous unless it is async callable
HasSyncCallable(is_class_dependency, dependency) ==
    is_class_dependency \/ ~is_async_callable(dependency)

\* Provide.__init__ on the instance self_id: the exception it raises ("" for
\* none), the warning it emits and the instance it initialises
Provide_init(self_id, dependency, use_cache, sync_to_thread) ==
    LET is_class_dependency == isclass(dependency)
        has_sync_gen == isgeneratorfunction(dependency)
        has_async_gen == isasyncgenfunction(dependency)
        has_generator_dependency == HasGeneratorDependency(has_sync_gen, has_async_gen)
        has_sync_callable == HasSyncCallable(is_class_dependency, dependency)
        offload == bool(sync_to_thread) /\ has_sync_callable
    IN  IF ~dependency.callable
        THEN [raised |-> "Provider dependency must be a callable value",
              warning |-> "", self |-> NoProvider]
        ELSE IF has_generator_dependency /\ use_cache
        THEN [raised |-> "Cannot cache generator dependency",
              warning |-> "", self |-> NoProvider]
        ELSE [raised |-> "",
              warning |-> InitWarning(has_generator_dependency, has_sync_callable,
                                      sync_to_thread),
              self |->
                [exists |-> TRUE,
                 dependency |-> IF offload THEN ensure_async_callable(dependency, self_id)
                                ELSE Unwrapped(dependency),
                 has_sync_generator_dependency |-> has_sync_gen,
                 has_async_generator_dependency |-> has_async_gen,
                 has_sync_callable |-> StoredHasSyncCallable(offload, has_sync_callable),
                 sync_to_thread |-> bool(sync_to_thread),
                 use_cache |-> use_cache,
                 value |-> Empty,
                 parsed_fn_signature |-> None,
                 signature_model |-> None]]

(***************************************************************************)
(* Provide.finalize                                                        *)
(***************************************************************************)
\* a plugin of the registry: whether it is a DIPlugin and whether its
\* has_typed_init accepts the dependency
Plugin(id, isDI, typed) == [id |-> id, isDI |-> isDI, has_typed_init |-> typed]

\* the keyword arguments finalize is called with
FinalizeArgs ==
    {[plugins |-> None, signature_namespace |-> "ns1", dependency_keys |-> {"x"},
      data_dto |-> None, type_decoders |-> <<>>],
     [plugins |-> Some(<<>>), signature_namespace |-> "ns2", dependency_keys |-> {"y"},
      data_dto |-> None, type_decoders |-> <<"dec1">>],
     [plugins |-> Some(<<Plugin(1, FALSE, TRUE), Plugin(2, TRUE, FALSE), Plugin(3, TRUE, TRUE),
                         Plugin(4, TRUE, TRUE)>>),
      signature_namespace |-> "ns1", dependency_keys |-> {"x", "y"},
      data_dto |-> Some("dto1"), type_decoders |-> <<"dec1", "dec2">>],
     [plugins |-> Some(<<Plugin(4, TRUE, TRUE)>>), signature_namespace |-> "ns2",
      dependency_keys |-> {"x"}, data_dto |-> Some("dto1"), type_decoders |-> <<>>]}

\* next(p for p in plugins.di if isinstance(p, DIPlugin) and p.has_typed_init(dependency)), None)
RECURSIVE FirstTypedPlugin(_)
FirstTypedPlugin(di) ==
    IF di = <<>> THEN None
    ELSE IF Head(di).isDI /\ Head(di).has_typed_init THEN Some(Head(di))
    ELSE FirstTypedPlugin(Tail(di))

\* ParsedSignature.from_signature(*plugin.get_typed_init(dependency))
ParsedSignature_from_signature(plugin, dependency) ==
    [via |-> "from_signature", plugin |-> plugin.id, fn |-> dependency, namespace |-> ""]
\* ParsedSignature.from_fn(dependency, signature_namespace)
ParsedSignature_from_fn(dependency, signature_namespace) ==
    [via |-> "from_fn", plugin |-> 0, fn |-> dependency, namespace |-> signature_namespace]
\* SignatureModel.create(...)
SignatureModel_create(dependency_name_set, fn, parsed_signature, data_dto, type_decoders) ==
    [dependency_name_set |-> dependency_name_set, fn |-> fn,
     parsed_signature |-> parsed_signature, data_dto |-> data_dto,
     type_decoders |-> type_decoders]

\* a finalize that parses the signature on every call
AlwaysParses(self) == TRUE

\* the guards of the two resolution steps of finalize
NeedsParsedSignature(self) == self.parsed_fn_signature = None
NeedsSignatureModel(self) == self.signature_model = None

\* the signature finalize parses when none is stored
ParseSignature(self, a) ==
    LET dependency == unwrap_partial(self.dependency)
        plugin == IF a.plugins # None THEN FirstTypedPlugin(a.plugins[1]) ELSE None
    IN  IF plugin # None
        THEN ParsedSignature_from_signature(plugin[1], dependency)
        ELSE ParsedSignature_from_fn(dependency, a.signature_namespace)

\* a finalize that stores the unwrapped dependency back on the instance
Provide_finalize_unwrapping(self, a) ==
    LET parse == NeedsParsedSignature(self)
        s1 == IF parse
              THEN [self EXCEPT !.parsed_fn_signature = Some(ParseSignature(self, a)),
                                !.dependency = Unwrapped(unwrap_partial(self.dependency))]
              ELSE self
        create == NeedsSignatureModel(s1)
        s2 == IF create
              THEN [s1 EXCEPT !.signature_model =
                      Some(SignatureModel_create(a.dependency_keys, s1.dependency,
                                                 s1.parsed_fn_signature[1], a.data_dto,
                                                 a.type_decoders))]
              ELSE s1
    IN  [self |-> s2, parsed |-> IF parse THEN 1 ELSE 0, created |-> IF create THEN 1 ELSE 0]

\* Provide.finalize: the instance after the call, and how many signatures
\* were parsed and how many signature models were created by the call
Provide_finalize(self, a) ==
    LET parse == NeedsParsedSignature(self)
        s1 == IF parse
              THEN [self EXCEPT !.parsed_fn_signature = Some(ParseSignature(self, a))]
              ELSE self
        create == NeedsSignatureModel(s1)
        s2 == IF create
              THEN [s1 EXCEPT !.signature_model =
                      Some(SignatureModel_create(a.dependency_keys, s1.dependency,
                                                 s1.parsed_fn_signature[1], a.data_dto,
                                                 a.type_decoders))]
              ELSE s1
    IN  [self |-> s2, parsed |-> IF parse THEN 1 ELSE 0, created |-> IF create THEN 1 ELSE 0]

(***************************************************************************)
(* Provide.__call__                                                        *)
(***************************************************************************)
\* what the function of the dependency can produce when it runs: a
\* generator function returns a generator object, anything else returns a
\* value or raises
Outcomes(self) ==
    IF self.has_sync_generator_dependency \/ self.has_async_generator_dependency
    THEN {GeneratorObject}
    ELSE Results \cup {Raise}

\* whether calling the stored dependency gives an awaitable: it is an
\* AsyncCallable adapter or a coroutine function
ReturnsAwaitable(dependency) ==
    dependency.wrapped \/ (~dependency.func.isclass /\ dependency.func.kind = "coroutine")

\* "value = self.dependency(**kwargs)": what __call__ gets from a plain call
\* of the stored dependency whose function would produce produced
CalledValue(self, produced) ==
    IF ReturnsAwaitable(self.dependency) THEN CoroutineObject ELSE produced

\* an await that turns an exception of the dependency into None
AwaitedValueSwallows(self, produced) ==
    IF ReturnsAwaitable(self.dependency)
    THEN IF produced = Raise THEN "None" ELSE produced
    ELSE Raise

\* "value = await self.dependency(**kwargs)": what __call__ gets from
\* awaiting the call; an adapter runs the function in a thread and gives
\* what it produced, and awaiting what is not awaitable raises
AwaitedValue(self, produced) ==
    IF ReturnsAwaitable(self.dependency) THEN produced ELSE Raise

\* a provider that never looks at the cached slot
CacheHitNever(self) == FALSE

\* a truthiness test of the cached slot, which takes None for "unset"
CacheHitTruthy(self) == self.use_cache /\ self.value \notin {Empty, "None"}

\* "if self.use_cache and self.value is not Empty"
CacheHit(self) == self.use_cache /\ self.value # Empty

\* a store that keeps the first cached value
StoresValueOnce(self) == self.use_cache /\ self.value = Empty

\* a store that ignores the cache flag
StoresAlways(self) == TRUE

\* "if self.use_cache: self.value = value"
StoresValue(self) == self.use_cache

\* an invocation that has not started
IdleTask ==
    [pc |-> "idle", prov |-> "p", kwargs |-> "", passed |-> None, produced |-> "", ret |-> ""]

(***************************************************************************)
(* State                                                                   *)
(***************************************************************************)
VARIABLES
    prov,           \* the provider instances
    construction,   \* per provider: the last call of Provide.__init__ and its outcome
    collab,         \* per provider: calls of finalize and of the signature collaborators
    writes,         \* per provider: number of assignments to self.value in __call__
    task,           \* the invocations of Provide.__call__
    compared        \* the value of provider == provider, when that was the last operation

provVars == <<prov, construction, collab, writes, task, compared>>

\* no comparison was made
NotCompared == [done |-> FALSE, self_id |-> "", other_id |-> "", result |-> FALSE]

NoConstruction ==
    [called |-> FALSE, dependency |-> NoProvider.dependency.func, use_cache |-> FALSE,
     sync_to_thread |-> None, raised |-> "", warning |-> ""]

ProvInit ==
    /\ prov = [p \in ProvIds |-> NoProvider]
    /\ construction = [p \in ProvIds |-> NoConstruction]
    /\ collab = [p \in ProvIds |-> [finalize |-> 0, parsed |-> 0, created |-> 0]]
    /\ writes = [p \in ProvIds |-> 0]
    /\ task = [t \in Tasks |-> IdleTask]
    /\ compared = NotCompared

\* Provide(dependency, use_cache, sync_to_thread)
Construct(p, dependency, use_cache, sync_to_thread) ==
    /\ ~prov[p].exists
    /\ LET r == Provide_init(p, dependency, use_cache, sync_to_thread)
       IN  /\ prov' = [prov EXCEPT ![p] = r.self]
           /\ construction' = [construction EXCEPT ![p] =
                 [called |-> TRUE, dependency |-> dependency, use_cache |-> use_cache,
                  sync_to_thread |-> sync_to_thread, raised |-> r.raised,
                  warning |-> r.warning]]
    /\ compared' = NotCompared
    /\ UNCHANGED <<collab, writes, task>>

\* provider.finalize(plugins=..., signature_namespace=..., ...)
Finalize(p, a) ==
    /\ prov[p].exists
    /\ collab[p].finalize < MaxFinalize
    /\ LET r == Provide_finalize(prov[p], a)
       IN  /\ prov' = [prov EXCEPT ![p] = r.self]
           /\ collab' = [collab EXCEPT ![p] =
                 [finalize |-> @.finalize + 1, parsed |-> @.parsed + r.parsed,
                  created |-> @.created + r.created]]
    /\ compared' = NotCompared
    /\ UNCHANGED <<construction, writes, task>>

\* await provider(**kwargs), up to its first suspension point: a cache hit
\* returns at once, a synchronous dependency is called, stored and returned
\* at once, an asynchronous one is called and awaited
CallBegin(t, p, kwargs) ==
    /\ task[t].pc = "idle"
    /\ \A u \in Tasks : u < t => task[u].pc # "idle"
    /\ prov[p].exists
    /\ LET self == prov[p]
           started == [task[t] EXCEPT !.prov = p, !.kwargs = kwargs]
       IN  IF CacheHit(self)
           THEN /\ task' = [task EXCEPT ![t] = [started EXCEPT !.pc = "returned",
                                                              !.ret = self.value]]
                /\ UNCHANGED <<prov, writes>>
           ELSE IF self.has_sync_callable
           THEN \E produced \in Outcomes(self) :
                  LET value == CalledValue(self, produced)
                      self2 == IF StoresValue(self) /\ value # Raise
                               THEN [self EXCEPT !.value = value] ELSE self
                  IN  /\ task' = [task EXCEPT ![t] =
                            [started EXCEPT !.pc = IF value = Raise THEN "raised" ELSE "returned",
                                            !.ret = IF value = Raise THEN "" ELSE value,
                                            !.produced = produced,
                                            !.passed = Some(kwargs)]]
                      /\ prov' = [prov EXCEPT ![p] = self2]
                      /\ writes' = [writes EXCEPT ![p] =
                            IF StoresValue(self) /\ value # Raise THEN @ + 1 ELSE @]
           ELSE /\ task' = [task EXCEPT ![t] = [started EXCEPT !.pc = "awaiting",
                                                              !.passed = Some(kwargs)]]
                /\ UNCHANGED <<prov, writes>>
    /\ compared' = NotCompared
    /\ UNCHANGED <<construction, collab>>

\* the awaited dependency of invocation t completes (or raises); __call__
\* stores the value when caching and returns it
CallResume(t) ==
    /\ task[t].pc = "awaiting"
    /\ \E produced \in Outcomes(prov[task[t].prov]) :
         LET p == task[t].prov
             self == prov[p]
             value == AwaitedValue(self, produced)
         IN  IF value = Raise
             THEN /\ task' = [task EXCEPT ![t].pc = "raised", ![t].produced = produced]
                  /\ UNCHANGED <<prov, writes>>
             ELSE /\ task' = [task EXCEPT ![t].pc = "returned", ![t].ret = value,
                                          ![t].produced = produced]
                  /\ IF StoresValue(self)
                     THEN /\ prov' = [prov EXCEPT ![p].value = value]
                          /\ writes' = [writes EXCEPT ![p] = @ + 1]
                     ELSE UNCHANGED <<prov, writes>>
    /\ compared' = NotCompared
    /\ UNCHANGED <<construction, collab>>

\* a comparison that looks at the cached values only when both are set
Provide_eq_when_both_set(self_id, self, other_id, other) ==
    \/ other_id = self_id
    \/ /\ other.dependency = self.dependency
       /\ other.use_cache = self.use_cache
       /\ (other.value # Empty /\ self.value # Empty => other.value = self.value)

\* Provide.__eq__ of the instance self_id (with fields self) against the
\* provider instance other_id (with fields other)
Provide_eq(self_id, self, other_id, other) ==
    \/ other_id = self_id
    \/ /\ other.dependency = self.dependency
       /\ other.use_cache = self.use_cache
       /\ other.value = self.value

\* a == b for two provider instances
Compare(a, b) ==
    /\ prov[a].exists /\ prov[b].exists
    /\ compared' = [done |-> TRUE, self_id |-> a, other_id |-> b,
                    result |-> Provide_eq(a, prov[a], b, prov[b])]
    /\ UNCHANGED <<prov, construction, collab, writes, task>>

\* no invocation is suspended
NoneAwaiting == \A t \in Tasks : task[t].pc # "awaiting"


(***************************************************************************)
(* ASGIRouteHandler: paths                                                 *)
(***************************************************************************)
\* a path is a sequence of characters; "/" separates its segments
Slash == "/"

RECURSIVE LStrip(_)
LStrip(path) == IF path # <<>> /\ Head(path) = Slash THEN LStrip(Tail(path)) ELSE path
RECURSIVE RStrip(_)
RStrip(path) ==
    IF path # <<>> /\ path[Len(path)] = Slash
    THEN RStrip(SubSeq(path, 1, Len(path) - 1)) ELSE path
RECURSIVE CollapseSlashes(_)
CollapseSlashes(path) ==
    IF Len(path) < 2 THEN path
    ELSE IF path[1] = Slash /\ path[2] = Slash THEN CollapseSlashes(Tail(path))
    ELSE <<path[1]>> \o CollapseSlashes(Tail(path))

\* litestar.utils.path.normalize_path: strip the slashes at both ends, put
\* one in front, collapse runs of slashes
normalize_path(path) == CollapseSlashes(<<Slash>> \o RStrip(LStrip(path)))

\* "/".join(paths)
RECURSIVE SlashJoin(_)
SlashJoin(paths) ==
    IF paths = <<>> THEN <<>>
    ELSE IF Len(paths) = 1 THEN paths[1]
    ELSE paths[1] \o <<Slash>> \o SlashJoin(Tail(paths))

\* litestar.utils.join_paths
join_paths(paths) == normalize_path(SlashJoin(paths))

(***************************************************************************)
(* ASGIRouteHandler: construction and merge                                *)
(***************************************************************************)
\* "x or default" / "x if x is not None else default" on an optional value
OrElse(opt, default) == IF opt = None THEN default ELSE opt[1]

\* litestar.utils.empty.value_or_default
value_or_default(value, default) == IF value = Empty THEN default ELSE value

\* the empty mapping and {**parent, **child}
EmptyMap == [k \in {} |-> ""]

\* a merge in which the entries of the enclosing scope win
MergeMappingsParentWins(parent, child) ==
    [k \in DOMAIN parent \cup DOMAIN child |->
        IF k \in DOMAIN parent THEN parent[k] ELSE child[k]]

\* "{**(other.x or {}), **self.x}"
MergeMappings(parent, child) ==
    [k \in DOMAIN parent \cup DOMAIN child |->
        IF k \in DOMAIN child THEN child[k] ELSE parent[k]]

\* "[*(other.x or []), *self.x]"
MergeSequences(parent, child) == parent \o child

\* paths joined with the fragment of the handler in front
MergedPathsChildFirst(other_path, paths) ==
    [i \in 1 .. Len(paths) |-> join_paths(<<paths[i], other_path>>)]

\* "[join_paths([other.path, p]) for p in self.paths]"
MergedPaths(other_path, paths) ==
    [i \in 1 .. Len(paths) |-> join_paths(<<other_path, paths[i]>>)]

\* ASGIRouteHandler.__init__ and BaseRouteHandler.__init__: the handler made
\* from the keyword arguments a (optional ones are None when not given)
ASGIRouteHandler_init(a) ==
    [paths |-> OrElse(a.path, <<<<Slash>>>>),
     fn |-> a.fn,
     dependencies |-> OrElse(a.dependencies, EmptyMap),
     dto |-> a.dto,
     return_dto |-> a.return_dto,
     exception_handlers |-> OrElse(a.exception_handlers, EmptyMap),
     guards |-> OrElse(a.guards, <<>>),
     middleware |-> OrElse(a.middleware, <<>>),
     name |-> a.name,
     opt |-> OrElse(a.opt, EmptyMap),
     signature_namespace |-> OrElse(a.signature_namespace, EmptyMap),
     signature_types |-> OrElse(a.signature_types, <<>>),
     type_decoders |-> OrElse(a.type_decoders, <<>>),
     type_encoders |-> OrElse(a.type_encoders, EmptyMap),
     parameters |-> OrElse(a.parameters, EmptyMap),
     is_mount |-> a.is_mount]

\* the handler ASGIRouteHandler.merge constructs
MergedHandler(self, other) ==
    ASGIRouteHandler_init(
        [path |-> Some(MergedPaths(other.path, self.paths)),
         fn |-> self.fn,
         dependencies |-> Some(MergeMappings(OrElse(other.dependencies, EmptyMap),
                                             self.dependencies)),
         dto |-> value_or_default(self.dto, other.dto),
         return_dto |-> value_or_default(self.return_dto, other.return_dto),
         exception_handlers |-> Some(MergeMappings(OrElse(other.exception_handlers, EmptyMap),
                                                   self.exception_handlers)),
         guards |-> Some(MergeSequences(OrElse(other.guards, <<>>), self.guards)),
         middleware |-> Some(MergeSequences(OrElse(other.middleware, <<>>), self.middleware)),
         name |-> self.name,
         opt |-> Some(MergeMappings(OrElse(other.opt, EmptyMap), self.opt)),
         signature_namespace |-> Some(MergeMappings(other.signature_namespace,
                                                    self.signature_namespace)),
         signature_types |-> other.signature_types,
         type_decoders |-> Some(MergeSequences(OrElse(other.type_decoders, <<>>),
                                               self.type_decoders)),
         type_encoders |-> Some(MergeMappings(OrElse(other.type_encoders, EmptyMap),
                                              self.type_encoders)),
         parameters |-> Some(MergeMappings(other.parameters, self.parameters)),
         is_mount |-> self.is_mount])

\* a merge that turns the handler itself into the merged handler
merge_in_place(self, other) ==
    [result |-> MergedHandler(self, other), self |-> MergedHandler(self, other),
     other |-> other]

\* ASGIRouteHandler.merge: the handler it returns, and the handler and the
\* enclosing scope after the call
merge(self, other) ==
    [result |-> MergedHandler(self, other), self |-> self, other |-> other]

(***************************************************************************)
(* ASGIRouteHandler: validation and dispatch                               *)
(***************************************************************************)
\* the names an ASGI handler function must declare
RequiredParametersWithoutReceive == {"scope", "send"}
RequiredParameters == {"scope", "send", "receive"}

\* BaseRouteHandler._validate_handler_function
BaseValidation(self) == IF self.fn.base_ok THEN "" ELSE "base validation failed"

\* ASGIRouteHandler._validate_handler_function: the message of the
\* ImproperlyConfiguredException it raises, "" when it returns
ValidateHandlerFunction(self) ==
    IF BaseValidation(self) # "" THEN BaseValidation(self)
    ELSE IF self.fn.return_type # "None"
    THEN "ASGI handler functions should return 'None'"
    ELSE IF \E key \in RequiredParameters : key \notin self.fn.parameters
    THEN "ASGI handler functions should define 'scope', 'send' and 'receive' arguments"
    ELSE IF ~is_async_callable(self.fn)
    THEN "Functions decorated with 'asgi' must be async functions"
    ELSE ""

\* BaseRouteHandler._resolve_guards
ResolveGuards(self) == self.guards

\* an inverted test: authorize only when there are no guards
MustAuthorizeInverted(guards) == guards = <<>>

\* "if self._resolve_guards():"
MustAuthorize(guards) == guards # <<>>

\* keyword arguments with receive and send interchanged
FnKwargsSwapped(connection) ==
    [scope |-> connection.scope, receive |-> connection.send, send |-> connection.receive]

\* "self.fn(scope=connection.scope, receive=connection.receive, send=connection.send)"
FnKwargs(connection) ==
    [scope |-> connection.scope, receive |-> connection.receive, send |-> connection.send]

\* a guard rejects the connection by raising
GuardRejects(guard, connection) == guard \in connection.rejected_by

(***************************************************************************)
(* ASGIRouteHandler: the handlers, enclosing scopes and connections        *)
(***************************************************************************)
\* number of merges in one behaviour
MaxMerges == 2

\* a handler function: what kind of function it is, the parameters and the
\* return annotation of its parsed signature, and whether the base
\* validation accepts it
AsgiFn(name, kind, parameters, return_type, base_ok) ==
    [name |-> name, callable |-> TRUE, isclass |-> FALSE, kind |-> kind,
     parameters |-> parameters, return_type |-> return_type, base_ok |-> base_ok]

Fns ==
    {AsgiFn("app", "coroutine", {"scope", "receive", "send"}, "None", TRUE),
     AsgiFn("app_extra", "coroutine", {"scope", "receive", "send", "state"}, "None", TRUE),
     AsgiFn("no_scope", "coroutine", {"receive", "send"}, "None", TRUE),
     AsgiFn("no_send", "coroutine", {"scope", "receive"}, "None", TRUE),
     AsgiFn("no_receive", "coroutine", {"scope", "send"}, "None", TRUE),
     AsgiFn("returns_int", "coroutine", {"scope", "receive", "send"}, "int", TRUE),
     AsgiFn("sync_app", "plain", {"scope", "receive", "send"}, "None", TRUE),
     AsgiFn("sync_no_send", "plain", {"scope", "receive"}, "None", TRUE),
     AsgiFn("all_wrong", "plain", {}, "int", TRUE),
     AsgiFn("base_rejects", "coroutine", {"scope", "receive", "send"}, "None", FALSE)}

\* some paths
PathRoot == <<"/">>
PathA == <<"/", "a">>
PathB == <<"/", "b">>
PathAB == <<"/", "a", "/", "b">>
PathBUnnormalized == <<"b", "/">>

\* the path argument of the constructor
PathArgs == {None, Some(<<PathB>>), Some(<<PathB, PathBUnnormalized, PathAB>>)}

\* the other keyword arguments of the constructor
HandlerConfigs ==
    {[dependencies |-> None, dto |-> Empty, return_dto |-> Empty,
      exception_handlers |-> None, guards |-> None, middleware |-> None,
      name |-> None, opt |-> None, signature_namespace |-> None,
      signature_types |-> None, type_decoders |-> None, type_encoders |-> None,
      parameters |-> None, is_mount |-> FALSE],
     [dependencies |-> Some([k \in {"x", "y"} |-> IF k = "x" THEN "c_dep_x" ELSE "c_dep_y"]),
      dto |-> "ChildDTO", return_dto |-> Empty,
      exception_handlers |-> Some([k \in {"x"} |-> "c_exc_x"]),
      guards |-> Some(<<"g1", "g3">>), middleware |-> Some(<<"m1", "m2">>),
      name |-> Some("child"), opt |-> Some([k \in {"x"} |-> "c_opt_x"]),
      signature_namespace |-> Some([k \in {"x", "y"} |-> IF k = "x" THEN "c_ns_x" ELSE "c_ns_y"]),
      signature_types |-> None, type_decoders |-> Some(<<"d1">>),
      type_encoders |-> Some([k \in {"y"} |-> "c_enc_y"]),
      parameters |-> Some([k \in {"x"} |-> "c_par_x"]), is_mount |-> TRUE],
     [dependencies |-> Some([k \in {"z"} |-> "c_dep_z"]),
      dto |-> "None", return_dto |-> "ChildReturnDTO",
      exception_handlers |-> None,
      guards |-> Some(<<"g3">>), middleware |-> None,
      name |-> Some("other"), opt |-> Some([k \in {"y"} |-> "c_opt_y"]),
      signature_namespace |-> None,
      signature_types |-> None, type_decoders |-> Some(<<"d2", "d1">>),
      type_encoders |-> Some([k \in {"x", "y"} |-> IF k = "x" THEN "c_enc_x" ELSE "c_enc_y"]),
      parameters |-> Some([k \in {"z"} |-> "c_par_z"]), is_mount |-> FALSE]}

\* the enclosing scopes (routers and controllers) a handler is merged into
RouterIds == {"r1", "r2", "r3"}
Routers ==
    [r \in RouterIds |->
        IF r = "r1"
        THEN [path |-> PathA,
              dependencies |-> Some([k \in {"x", "z"} |-> IF k = "x" THEN "p_dep_x" ELSE "p_dep_z"]),
              dto |-> "ParentDTO", return_dto |-> "None",
              exception_handlers |-> Some([k \in {"x", "y"} |-> IF k = "x" THEN "p_exc_x" ELSE "p_exc_y"]),
              guards |-> Some(<<"g0", "g1">>), middleware |-> Some(<<"m0">>),
              opt |-> Some([k \in {"x", "y"} |-> IF k = "x" THEN "p_opt_x" ELSE "p_opt_y"]),
              signature_namespace |-> [k \in {"x"} |-> "p_ns_x"],
              signature_types |-> Some(<<"T">>),
              type_decoders |-> Some(<<"d0">>),
              type_encoders |-> Some([k \in {"y"} |-> "p_enc_y"]),
              parameters |-> [k \in {"x", "z"} |-> IF k = "x" THEN "p_par_x" ELSE "p_par_z"]]
        ELSE IF r = "r2"
        THEN [path |-> PathRoot,
              dependencies |-> None, dto |-> Empty, return_dto |-> Empty,
              exception_handlers |-> None, guards |-> None, middleware |-> None,
              opt |-> None, signature_namespace |-> EmptyMap, signature_types |-> None,
              type_decoders |-> None, type_encoders |-> None, parameters |-> EmptyMap]
        ELSE [path |-> PathAB,
              dependencies |-> Some([k \in {"y"} |-> "q_dep_y"]),
              dto |-> Empty, return_dto |-> "ParentReturnDTO",
              exception_handlers |-> None,
              guards |-> Some(<<"g2">>), middleware |-> Some(<<"m3", "m0">>),
              opt |-> Some([k \in {"z"} |-> "q_opt_z"]),
              signature_namespace |-> [k \in {"y", "z"} |-> IF k = "y" THEN "q_ns_y" ELSE "q_ns_z"],
              signature_types |-> None,
              type_decoders |-> Some(<<"d3", "d1">>),
              type_encoders |-> Some([k \in {"x"} |-> "q_enc_x"]),
              parameters |-> [k \in {"x"} |-> "q_par_x"]]]

\* connections: the three transport primitives, and the guards that reject
\* the connection
Connections ==
    {[scope |-> "scope1", receive |-> "receive1", send |-> "send1", rejected_by |-> {}],
     [scope |-> "scope2", receive |-> "receive2", send |-> "send2", rejected_by |-> {"g1"}],
     [scope |-> "scope3", receive |-> "receive3", send |-> "send3",
      rejected_by |-> {"g2", "g3"}]}

VARIABLES
    handlers,   \* the handler instances, in order of creation
    origin,     \* per handler: the handler and the scope it was merged from
    routers,    \* the enclosing scopes
    checked,    \* per handler: the outcome of _validate_handler_function
    run         \* the execution of handle(connection)

handlerVars == <<handlers, origin, routers, checked, run>>

NotRunning ==
    [pc |-> "idle", handler |-> 0,
     connection |-> [scope |-> "", receive |-> "", send |-> "", rejected_by |-> {}],
     evaluated |-> <<>>, fn_calls |-> <<>>, raised |-> ""]

HandlerInit ==
    /\ handlers = <<>>
    /\ origin = <<>>
    /\ routers = Routers
    /\ checked = <<>>
    /\ run = NotRunning

\* ASGIRouteHandler(path, fn=fn, **config): the handler that is registered
ConstructHandler(path, fn, config) ==
    /\ handlers = <<>>
    /\ handlers' = <<ASGIRouteHandler_init(
            [path |-> path, fn |-> fn, dependencies |-> config.dependencies,
             dto |-> config.dto, return_dto |-> config.return_dto,
             exception_handlers |-> config.exception_handlers, guards |-> config.guards,
             middleware |-> config.middleware, name |-> config.name, opt |-> config.opt,
             signature_namespace |-> config.signature_namespace,
             signature_types |-> config.signature_types,
             type_decoders |-> config.type_decoders,
             type_encoders |-> config.type_encoders,
             parameters |-> config.parameters, is_mount |-> config.is_mount])>>
    /\ origin' = <<[child |-> 0, parent |-> ""]>>
    /\ checked' = <<"">>
    /\ UNCHANGED <<routers, run>>

\* handlers[h].merge(routers[r])
Merge(h, r) ==
    /\ h \in 1 .. Len(handlers)
    /\ Len(handlers) < 1 + MaxMerges
    /\ LET m == merge(handlers[h], routers[r])
       IN  /\ handlers' = Append([handlers EXCEPT ![h] = m.self], m.result)
           /\ routers' = [routers EXCEPT ![r] = m.other]
    /\ origin' = Append(origin, [child |-> h, parent |-> r])
    /\ checked' = Append(checked, "")
    /\ UNCHANGED run

\* handlers[h]._validate_handler_function()
Validate(h) ==
    /\ h \in 1 .. Len(handlers)
    /\ checked[h] = ""
    /\ checked' = [checked EXCEPT ![h] =
          IF ValidateHandlerFunction(handlers[h]) = "" THEN "ok"
          ELSE ValidateHandlerFunction(handlers[h])]
    /\ UNCHANGED <<handlers, origin, routers, run>>

\* await handlers[h].handle(connection), up to its first suspension point:
\* with guards the authorization is awaited, without guards fn is invoked
HandleBegin(h, connection) ==
    /\ run.pc = "idle"
    /\ h \in 1 .. Len(handlers)
    /\ LET guards == ResolveGuards(handlers[h])
       IN  IF MustAuthorize(guards) /\ guards # <<>>
           THEN run' = [run EXCEPT !.pc = "authorize", !.handler = h,
                                   !.connection = connection]
           ELSE run' = [run EXCEPT !.pc = "fn", !.handler = h, !.connection = connection,
                                   !.fn_calls = Append(@, FnKwargs(connection))]
    /\ UNCHANGED <<handlers, origin, routers, checked>>

\* authorize_connection awaits the next guard: a guard that rejects raises
\* out of handle; after the last guard has passed, handle invokes fn
GuardStep ==
    /\ run.pc = "authorize"
    /\ LET guards == ResolveGuards(handlers[run.handler])
           guard == guards[Len(run.evaluated) + 1]
       IN  IF GuardRejects(guard, run.connection)
           THEN run' = [run EXCEPT !.pc = "raised", !.raised = guard,
                                   !.evaluated = Append(@, guard)]
           ELSE IF Len(run.evaluated) + 1 = Len(guards)
           THEN run' = [run EXCEPT !.pc = "fn", !.evaluated = Append(@, guard),
                                   !.fn_calls = Append(@, FnKwargs(run.connection))]
           ELSE run' = [run EXCEPT !.evaluated = Append(@, guard)]
    /\ UNCHANGED <<handlers, origin, routers, checked>>

\* the awaited fn returns or raises, and so does handle
FnReturn ==
    /\ run.pc = "fn"
    /\ \E outcome \in {"done", "fn_raised"} : run' = [run EXCEPT !.pc = outcome]
    /\ UNCHANGED <<handlers, origin, routers, checked>>


vars == <<provVars, handlerVars>>
Init == ProvInit /\ HandlerInit

\* the provider instance the behaviours of Spec and SpecSeq exercise
UnderTest == {"p"}

\* invocations may overlap: a new one may start while others are suspended
Next ==
    \/ \E p \in UnderTest, d \in Dependencies, c \in BOOLEAN, s \in SyncToThreadArgs :
         Construct(p, d, c, s) /\ UNCHANGED handlerVars
    \/ \E p \in UnderTest, a \in FinalizeArgs : Finalize(p, a) /\ UNCHANGED handlerVars
    \/ \E t \in Tasks, p \in UnderTest, k \in Kwargs :
         CallBegin(t, p, k) /\ UNCHANGED handlerVars
    \/ \E t \in Tasks : CallResume(t) /\ UNCHANGED handlerVars
Spec == Init /\ [][Next]_vars

\* the dependencies given to the providers that are compared: a function,
\* a coroutine function and a generator function
EqDependencies == {d \in Dependencies : d.callable /\ ~d.isclass /\ d.kind # "asyncgen"}

\* two providers are constructed, invoked one invocation at a time, and
\* compared
NextEq ==
    \/ \E p \in ProvIds, d \in EqDependencies, c \in BOOLEAN, s \in {Some(TRUE), Some(FALSE)} :
         Construct(p, d, c, s) /\ UNCHANGED handlerVars
    \/ \E t \in Tasks, p \in ProvIds :
         NoneAwaiting /\ CallBegin(t, p, "k1") /\ UNCHANGED handlerVars
    \/ \E t \in Tasks : CallResume(t) /\ UNCHANGED handlerVars
    \/ \E a, b \in ProvIds : Compare(a, b) /\ UNCHANGED handlerVars
SpecEq == Init /\ [][NextEq]_vars

\* invocations do not overlap: a new one starts only when none is suspended
NextSeq ==
    \/ \E p \in UnderTest, d \in Dependencies, c \in BOOLEAN, s \in SyncToThreadArgs :
         Construct(p, d, c, s) /\ UNCHANGED handlerVars
    \/ \E p \in UnderTest, a \in FinalizeArgs : Finalize(p, a) /\ UNCHANGED handlerVars
    \/ \E t \in Tasks, p \in UnderTest, k \in Kwargs :
         NoneAwaiting /\ CallBegin(t, p, k) /\ UNCHANGED handlerVars
    \/ \E t \in Tasks : CallResume(t) /\ UNCHANGED handlerVars
SpecSeq == Init /\ [][NextSeq]_vars

\* a handler is registered, merged into enclosing scopes and validated
NextHandler ==
    \/ \E path \in PathArgs, fn \in Fns, config \in HandlerConfigs :
         ConstructHandler(path, fn, config) /\ UNCHANGED provVars
    \/ \E h \in 1 .. (1 + MaxMerges), r \in RouterIds : Merge(h, r) /\ UNCHANGED provVars
    \/ \E h \in 1 .. (1 + MaxMerges) : Validate(h) /\ UNCHANGED provVars
SpecHandler == Init /\ [][NextHandler]_vars

\* a handler is registered, merged into enclosing scopes and dispatched to
NextDispatch ==
    \/ \E path \in PathArgs, fn \in Fns, config \in HandlerConfigs :
         ConstructHandler(path, fn, config) /\ UNCHANGED provVars
    \/ \E h \in 1 .. (1 + MaxMerges), r \in RouterIds : Merge(h, r) /\ UNCHANGED provVars
    \/ \E h \in 1 .. (1 + MaxMerges), c \in Connections :
         HandleBegin(h, c) /\ UNCHANGED provVars
    \/ GuardStep /\ UNCHANGED provVars
    \/ FnReturn /\ UNCHANGED provVars
SpecDispatch == Init /\ [][NextDispatch]_vars

(***************************************************************************)
(* Properties of Provide                                                   *)
(***************************************************************************)
\* the invocations of provider p that have started
Started(p) == {t \in Tasks : task[t].pc # "idle" /\ task[t].prov = p}

\* C1: with use_cache=True and invocations that do not overlap, once an
\* invocation has returned the value the dependency produced, no later
\* invocation calls the dependency and every later invocation returns that
\* same value, whatever its keyword arguments and also when the value is
\* None; so the dependency is called only by the first invocation.
C1_CachedCalledOnce ==
    \A p \in ProvIds : prov[p].exists /\ prov[p].use_cache =>
        \A t1, t2 \in Started(p) :
            t1 < t2 /\ task[t1].pc = "returned" =>
                /\ task[t2].passed = None
                /\ task[t2].pc = "returned"
                /\ task[t2].ret = task[t1].ret
                /\ prov[p].value = task[t1].ret

\* three invocations with differing keyword arguments, the first of which
\* called the dependency and got None
C1_Witness ==
    /\ prov["p"].exists /\ prov["p"].use_cache
    /\ \A t \in 1 .. 3 : task[t].pc = "returned"
    /\ task[1].passed # None /\ task[1].ret = "None"
    /\ task[2].kwargs # task[1].kwargs
    /\ task[3].ret = "None"

\* C4: Provide(...) raises exactly when the dependency is not callable or
\* when use_cache=True and the dependency (or the __call__ of the class) is
\* a generator or async generator function, whatever sync_to_thread is; in
\* every other case an instance exists; no instance has use_cache=True
\* together with a generator classification.
C4_ConstructionRaisesExactly ==
    \A p \in ProvIds :
        /\ construction[p].called =>
            LET c == construction[p]
                generatorBased == c.dependency.kind \in {"generator", "asyncgen"}
            IN  /\ c.raised # "" <=>
                      (~c.dependency.callable \/ (c.use_cache /\ generatorBased))
                /\ c.raised = "" <=> prov[p].exists
        /\ prov[p].exists =>
            ~(prov[p].use_cache /\ (prov[p].has_sync_generator_dependency
                                    \/ prov[p].has_async_generator_dependency))

\* a class whose __call__ is an async generator, with use_cache=True and
\* sync_to_thread=False, was refused
C4_Witness ==
    /\ construction["p"].called
    /\ construction["p"].raised # ""
    /\ construction["p"].dependency = [callable |-> TRUE, isclass |-> TRUE, kind |-> "asyncgen"]
    /\ construction["p"].use_cache
    /\ construction["p"].sync_to_thread = Some(FALSE)

\* C5: with use_cache=False every invocation calls the dependency, with the
\* keyword arguments of that invocation, and the cached slot stays Empty.
C5_UncachedCallsEveryTime ==
    \A p \in ProvIds : prov[p].exists /\ ~prov[p].use_cache =>
        /\ \A t \in Started(p) : task[t].passed = Some(task[t].kwargs)
        /\ prov[p].value = Empty
        /\ writes[p] = 0

\* three finished invocations of an uncached provider, each of which called
\* the dependency
C5_Witness ==
    /\ prov["p"].exists /\ ~prov["p"].use_cache
    /\ \A t \in 1 .. 3 : task[t].pc = "returned" /\ task[t].passed # None
    /\ task[1].kwargs = task[2].kwargs /\ task[3].kwargs # task[1].kwargs

\* C7: once finalize has been called, a further call of finalize changes
\* neither parsed_fn_signature nor signature_model and neither parses a
\* signature nor creates a signature model; each is computed at most once.
C7_FinalizeIdempotent ==
    [][\A p \in ProvIds :
          /\ collab[p].finalize >= 1 =>
                /\ prov'[p].parsed_fn_signature = prov[p].parsed_fn_signature
                /\ prov'[p].signature_model = prov[p].signature_model
                /\ collab'[p].parsed = collab[p].parsed
                /\ collab'[p].created = collab[p].created
          /\ collab'[p].parsed <= 1
          /\ collab'[p].created <= 1]_vars

\* finalize was called a second time on a provider whose signature came from
\* a plugin
C7_Witness ==
    /\ collab["p"].finalize >= 2
    /\ prov["p"].parsed_fn_signature # None
    /\ prov["p"].signature_model # None
    /\ prov["p"].parsed_fn_signature[1].via = "from_signature"

(***************************************************************************)
(* Properties of ASGIRouteHandler                                          *)
(***************************************************************************)
\* the handlers that were made by merge
Merged == {i \in 1 .. Len(handlers) : origin[i].child # 0}
ChildOf(i) == handlers[origin[i].child]
ParentOf(i) == routers[origin[i].parent]

\* the entries of an optional mapping or sequence of an enclosing scope
Given(opt, empty) == IF opt = None THEN empty ELSE opt[1]

\* m has the keys of both sides, and the value of the child on its keys
ChildWinsUnion(m, parent, child) ==
    /\ DOMAIN m = DOMAIN parent \cup DOMAIN child
    /\ \A k \in DOMAIN child : m[k] = child[k]
    /\ \A k \in DOMAIN parent \ DOMAIN child : m[k] = parent[k]

\* s is the entries of the parent followed by those of the child
ParentThenChild(s, parent, child) ==
    /\ Len(s) = Len(parent) + Len(child)
    /\ \A i \in 1 .. Len(parent) : s[i] = parent[i]
    /\ \A i \in 1 .. Len(child) : s[Len(parent) + i] = child[i]

\* C2: when a guard of the handler rejects the connection, fn is never
\* invoked and handle raises the error of that guard; when there are no
\* guards or all guards pass, a finished handle has invoked fn exactly once,
\* with scope, receive and send of the connection as keyword arguments.
C2_GuardedDispatch ==
    run.pc # "idle" =>
        LET guards == handlers[run.handler].guards
            rejecting == {i \in 1 .. Len(guards) : guards[i] \in run.connection.rejected_by}
        IN  /\ rejecting # {} =>
                /\ run.fn_calls = <<>>
                /\ run.pc \in {"authorize", "raised"}
            /\ run.pc = "raised" =>
                /\ rejecting # {}
                /\ \E i \in rejecting :
                      /\ run.raised = guards[i]
                      /\ \A j \in rejecting : i <= j
            /\ rejecting = {} /\ run.pc \in {"fn", "done", "fn_raised"} =>
                run.fn_calls = <<[scope |-> run.connection.scope,
                                  receive |-> run.connection.receive,
                                  send |-> run.connection.send]>>
            /\ rejecting = {} => run.pc \in {"authorize", "fn", "done", "fn_raised"}

\* handle has returned after four guards passed, and fn was invoked
C2_Witness ==
    /\ run.pc = "done"
    /\ Len(handlers[run.handler].guards) = 4
    /\ Len(run.fn_calls) = 1
    /\ run.fn_calls[1].send = "send1"

\* C3: fn is invoked only after every guard of the handler has been
\* evaluated, in sequence, and has passed; while a guard is still to be
\* evaluated fn has not been invoked.
C3_GuardsBeforeFn ==
    run.pc # "idle" =>
        LET guards == handlers[run.handler].guards
        IN  /\ Len(run.evaluated) <= Len(guards)
            /\ \A i \in 1 .. Len(run.evaluated) : run.evaluated[i] = guards[i]
            /\ run.fn_calls # <<>> =>
                /\ run.evaluated = guards
                /\ \A i \in 1 .. Len(guards) : guards[i] \notin run.connection.rejected_by
            /\ run.pc = "authorize" => run.fn_calls = <<>>

\* fn is being awaited after three guards were evaluated
C3_Witness ==
    /\ run.pc = "fn"
    /\ Len(run.evaluated) = 3
    /\ run.fn_calls # <<>>

\* C6: when the base validation passes, _validate_handler_function
\* succeeds exactly when the return type is None, scope, send and receive
\* are all parameters, and fn is an async callable.
C6_ValidationExact ==
    \A h \in 1 .. Len(handlers) :
        checked[h] # "" /\ handlers[h].fn.base_ok =>
            (checked[h] = "ok" <=>
                /\ handlers[h].fn.return_type = "None"
                /\ {"scope", "send", "receive"} \subseteq handlers[h].fn.parameters
                /\ handlers[h].fn.kind = "coroutine")

\* a handler whose only fault is the missing receive parameter was refused
C6_Witness ==
    /\ Len(handlers) >= 1
    /\ handlers[1].fn.name = "no_receive"
    /\ checked[1] \notin {"", "ok"}

\* C8: in a merged handler each of dependencies, exception_handlers, opt,
\* signature_namespace, parameters and type_encoders has the keys of parent
\* and child with the child's value on every key of the child, and each of
\* guards, middleware and type_decoders is the parent's sequence followed by
\* the child's.
C8_MergePrecedence ==
    \A i \in Merged :
        LET m == handlers[i]
            c == ChildOf(i)
            o == ParentOf(i)
        IN  /\ ChildWinsUnion(m.dependencies, Given(o.dependencies, EmptyMap), c.dependencies)
            /\ ChildWinsUnion(m.exception_handlers, Given(o.exception_handlers, EmptyMap),
                              c.exception_handlers)
            /\ ChildWinsUnion(m.opt, Given(o.opt, EmptyMap), c.opt)
            /\ ChildWinsUnion(m.signature_namespace, o.signature_namespace,
                              c.signature_namespace)
            /\ ChildWinsUnion(m.parameters, o.parameters, c.parameters)
            /\ ChildWinsUnion(m.type_encoders, Given(o.type_encoders, EmptyMap),
                              c.type_encoders)
            /\ ParentThenChild(m.guards, Given(o.guards, <<>>), c.guards)
            /\ ParentThenChild(m.middleware, Given(o.middleware, <<>>), c.middleware)
            /\ ParentThenChild(m.type_decoders, Given(o.type_decoders, <<>>), c.type_decoders)

\* a merge in which dependencies collide on key x and both sides have guards
C8_Witness ==
    /\ 2 \in Merged
    /\ origin[2] = [child |-> 1, parent |-> "r1"]
    /\ handlers[1].dependencies = [k \in {"x", "y"} |-> IF k = "x" THEN "c_dep_x" ELSE "c_dep_y"]
    /\ handlers[2].dependencies["x"] = "c_dep_x"
    /\ handlers[2].dependencies["z"] = "p_dep_z"
    /\ handlers[2].guards = <<"g0", "g1", "g1", "g3">>

\* the segments of a path: its maximal runs of characters other than "/"
RECURSIVE SegmentsFrom(_, _, _)
SegmentsFrom(path, current, done) ==
    IF path = <<>> THEN (IF current = <<>> THEN done ELSE Append(done, current))
    ELSE IF Head(path) = Slash
    THEN SegmentsFrom(Tail(path), <<>>, IF current = <<>> THEN done ELSE Append(done, current))
    ELSE SegmentsFrom(Tail(path), Append(current, Head(path)), done)
Segments(path) == SegmentsFrom(path, <<>>, <<>>)

\* the path that has the given segments, each after one "/"
RECURSIVE PathOf(_)
PathOf(segments) ==
    IF segments = <<>> THEN <<>>
    ELSE <<Slash>> \o Head(segments) \o PathOf(Tail(segments))

\* C9: a merged handler has one path per path of the child, in the child's
\* order, each made of the segments of the parent's path followed by the
\* segments of the child's path; a child with paths ["/b"] merged into a
\* parent with path "/a" has paths ["/a/b"].
C9_MergedPaths ==
    \A i \in Merged :
        LET m == handlers[i]
            c == ChildOf(i)
            o == ParentOf(i)
        IN  /\ Len(m.paths) = Len(c.paths)
            /\ \A j \in 1 .. Len(c.paths) :
                  LET segments == Segments(o.path) \o Segments(c.paths[j])
                  IN  m.paths[j] = IF segments = <<>> THEN <<Slash>> ELSE PathOf(segments)
            /\ o.path = <<"/", "a">> /\ c.paths = <<(<<"/", "b">>)>> =>
                  m.paths = <<(<<"/", "a", "/", "b">>)>>

\* a child with three paths merged into a parent with path "/a"
C9_Witness ==
    /\ 2 \in Merged
    /\ origin[2] = [child |-> 1, parent |-> "r1"]
    /\ handlers[1].paths = <<PathB, PathBUnnormalized, PathAB>>
    /\ handlers[2].paths = <<(<<"/", "a", "/", "b">>), (<<"/", "a", "/", "b">>),
                             (<<"/", "a", "/", "a", "/", "b">>)>>

\* C10: merge adds a new handler and changes neither an existing handler
\* nor an enclosing scope, and the merged handler has the name, fn and
\* is_mount of the child.
C10_MergeFrame ==
    [][/\ Len(handlers') >= Len(handlers)
       /\ \A i \in 1 .. Len(handlers) : handlers'[i] = handlers[i]
       /\ routers' = routers
       /\ Len(origin') > Len(origin) => Len(handlers') = Len(handlers) + 1
       /\ \A i \in 1 .. Len(handlers') :
             origin'[i].child # 0 =>
                /\ origin'[i].child < i
                /\ handlers'[i].name = handlers'[origin'[i].child].name
                /\ handlers'[i].fn = handlers'[origin'[i].child].fn
                /\ handlers'[i].is_mount = handlers'[origin'[i].child].is_mount]_vars

\* the same child was merged into two different parents
C10_Witness ==
    /\ Len(handlers) = 3
    /\ origin[2].child = 1 /\ origin[3].child = 1
    /\ origin[2].parent # origin[3].parent
    /\ handlers[1].name = Some("child")
    /\ handlers[3].is_mount

(***************************************************************************)
(* Properties of Provide: equality, classification, concurrency            *)
(***************************************************************************)
\* C11 (as claimed): a provider equals itself and equals any provider with
\* an equal dependency, the same cache flag and, if both have a cached
\* value, the same cached value; providers with a different cache flag or
\* a different dependency are unequal.
C11_EqualityAsClaimed ==
    compared.done =>
        LET a == prov[compared.self_id]
            b == prov[compared.other_id]
        IN  /\ (\/ compared.self_id = compared.other_id
                \/ /\ a.dependency = b.dependency
                   /\ a.use_cache = b.use_cache
                   /\ (a.value # Empty /\ b.value # Empty => a.value = b.value))
               => compared.result
            /\ (/\ compared.self_id # compared.other_id
                /\ (a.use_cache # b.use_cache \/ a.dependency # b.dependency))
               => ~compared.result

\* C11 (amended): a provider equals itself; two distinct providers are
\* equal exactly when their dependencies are equal, their cache flags are
\* the same and their cached slots are equal, that is both unset or both
\* holding the same value; a provider that has cached a value is unequal to
\* one whose slot is still unset.
C11_Equality ==
    compared.done =>
        LET a == prov[compared.self_id]
            b == prov[compared.other_id]
            bothUnset == a.value = Empty /\ b.value = Empty
            bothSetSame == a.value # Empty /\ b.value # Empty /\ a.value = b.value
        IN  /\ compared.self_id = compared.other_id => compared.result
            /\ compared.self_id # compared.other_id =>
                  (compared.result <=>
                      /\ a.dependency = b.dependency
                      /\ a.use_cache = b.use_cache
                      /\ (bothUnset \/ bothSetSame))

\* two providers of the same dependency with use_cache=True, of which only
\* one has cached a value, were compared and found unequal
C11_Witness ==
    /\ compared.done
    /\ compared.self_id = "p" /\ compared.other_id = "q"
    /\ prov["p"].dependency = prov["q"].dependency
    /\ prov["p"].use_cache /\ prov["q"].use_cache
    /\ prov["p"].value # Empty /\ prov["q"].value = Empty
    /\ ~compared.result

\* the calling convention of a provider, derived from its three flags
CallingConvention(self) ==
    IF self.has_async_generator_dependency THEN "async-generator"
    ELSE IF self.has_sync_generator_dependency THEN "sync-generator"
    ELSE IF self.has_sync_callable THEN "sync-plain"
    ELSE "async-plain"

\* C12: constructed without a request for thread offload (sync_to_thread
\* False or unspecified), a function is classified sync-plain, a coroutine
\* function async-plain, a generator function sync-generator, an async
\* generator function async-generator and a class with a synchronous
\* __call__ sync-plain; with sync_to_thread unspecified a plain synchronous
\* callable is only warned about: it is stored unwrapped and stays
\* synchronous.
C12_Classification ==
    \A p \in ProvIds :
        LET c == construction[p]
            d == c.dependency
        IN  c.called /\ c.raised = "" /\ c.sync_to_thread # Some(TRUE) =>
              /\ ~d.isclass /\ d.kind = "plain" => CallingConvention(prov[p]) = "sync-plain"
              /\ ~d.isclass /\ d.kind = "coroutine" => CallingConvention(prov[p]) = "async-plain"
              /\ ~d.isclass /\ d.kind = "generator" =>
                    CallingConvention(prov[p]) = "sync-generator"
              /\ ~d.isclass /\ d.kind = "asyncgen" =>
                    CallingConvention(prov[p]) = "async-generator"
              /\ d.isclass /\ d.kind = "plain" => CallingConvention(prov[p]) = "sync-plain"
              /\ c.sync_to_thread = None /\ d.kind = "plain" =>
                    /\ c.warning = "implicit_sync_to_thread"
                    /\ prov[p].dependency = [wrapped |-> FALSE, adapter |-> "", func |-> d]
                    /\ prov[p].has_sync_callable
                    /\ ~prov[p].sync_to_thread

\* an async generator function was given with sync_to_thread=False
C12_Witness ==
    /\ construction["p"].called /\ construction["p"].raised = ""
    /\ construction["p"].sync_to_thread = Some(FALSE)
    /\ construction["p"].dependency = [callable |-> TRUE, isclass |-> FALSE, kind |-> "asyncgen"]
    /\ prov["p"].has_async_generator_dependency

\* the providers made with sync_to_thread=True from a plain synchronous
\* dependency
Offloaded ==
    {p \in ProvIds : /\ construction[p].called /\ construction[p].raised = ""
                     /\ construction[p].sync_to_thread = Some(TRUE)
                     /\ construction[p].dependency.kind = "plain"}

\* the invocations of p in which the function of the dependency ran
Ran(p) == {t \in Started(p) : task[t].produced # ""}

\* C13 (as claimed): an offloaded provider is classified asynchronous and
\* every invocation returns what the original dependency returns for the
\* same keyword arguments: whenever the dependency behaved as a function of
\* its keyword arguments, an invocation returned what a call of the
\* dependency with these keyword arguments produced.
C13_OffloadAsClaimed ==
    \A p \in Offloaded :
        /\ ~prov[p].has_sync_callable
        /\ (\A u1, u2 \in Ran(p) :
               task[u1].passed = task[u2].passed => task[u1].produced = task[u2].produced)
           => \A t \in Started(p), u \in Ran(p) :
                 /\ task[t].pc = "returned"
                 /\ task[u].passed = Some(task[t].kwargs)
                 /\ task[u].produced # Raise
                 => task[t].ret = task[u].produced

\* C13 (amended): an offloaded provider stores the adapter around the
\* dependency and is classified asynchronous; every invocation that calls
\* the dependency passes its own keyword arguments and returns what the
\* original dependency produced for them (or raises when it raised); an
\* invocation served from the cache returns a value an earlier call produced.
C13_Offload ==
    \A p \in Offloaded :
        /\ ~prov[p].has_sync_callable
        /\ prov[p].dependency.wrapped
        /\ prov[p].dependency.func = construction[p].dependency
        /\ \A t \in Started(p) :
              /\ task[t].passed # None =>
                    /\ task[t].passed = Some(task[t].kwargs)
                    /\ task[t].pc = "returned" =>
                          task[t].produced \in Results /\ task[t].ret = task[t].produced
                    /\ task[t].pc = "raised" => task[t].produced = Raise
              /\ task[t].passed = None =>
                    /\ prov[p].use_cache
                    /\ task[t].pc = "returned"
                    /\ \E u \in Ran(p) : task[u].produced = task[t].ret

\* an offloaded provider without cache returned what the dependency
\* produced in two invocations with different keyword arguments
C13_Witness ==
    /\ "p" \in Offloaded /\ ~prov["p"].use_cache
    /\ task[1].pc = "returned" /\ task[2].pc = "returned"
    /\ task[1].kwargs = "k1" /\ task[2].kwargs = "k2"
    /\ task[1].ret = "a" /\ task[2].ret = "b"

\* the invocations of p that called the dependency and returned its value
Returned(p) ==
    {t \in Started(p) : task[t].pc = "returned" /\ task[t].passed # None}

\* C14 (as claimed): the cached slot of a provider is written at most once,
\* whatever the interleaving of its invocations.
C14_WrittenOnceAsClaimed == \A p \in ProvIds : writes[p] <= 1

\* C14 (amended): the slot is written only by an invocation that called the
\* dependency and returns its value, once by each; a provider classified
\* synchronous, and any provider while no invocation is suspended in the
\* dependency, keeps the value it holds, so without overlapping invocations
\* there is at most one write.
C14_Writes ==
    [][\A p \in ProvIds :
          /\ writes'[p] \in {writes[p], writes[p] + 1}
          /\ prov[p].exists /\ prov'[p].value # prov[p].value => writes'[p] = writes[p] + 1
          /\ writes'[p] = writes[p] + 1 =>
                /\ prov'[p].use_cache
                /\ \E t \in Tasks :
                      /\ task[t].pc # "returned" /\ task'[t].pc = "returned"
                      /\ task'[t].prov = p /\ task'[t].passed # None
                      /\ prov'[p].value = task'[t].ret
          /\ (/\ prov[p].exists /\ prov[p].value # Empty
              /\ \A t \in Tasks : ~(task[t].pc = "awaiting" /\ task[t].prov = p))
             => prov'[p].value = prov[p].value /\ writes'[p] = writes[p]
          /\ prov'[p].exists /\ prov'[p].has_sync_callable => writes'[p] <= 1
          /\ prov'[p].exists /\ prov'[p].use_cache =>
                writes'[p] = Cardinality({t \in Tasks :
                                 /\ task'[t].pc = "returned" /\ task'[t].prov = p
                                 /\ task'[t].passed # None})]_vars

\* the slot of a provider was written twice
C14_Witness ==
    /\ prov["p"].exists /\ prov["p"].use_cache
    /\ writes["p"] = 2
    /\ \E t \in Tasks : task[t].pc = "awaiting"

\* C15: an invocation of a cache-enabled provider with an asynchronous
\* dependency that starts while the slot is unset calls the dependency,
\* also while other invocations are pending; each such invocation, when its
\* call completes, writes the slot and returns the value of its own call,
\* so the slot holds the value of the invocation that completed last and
\* two invocations can return different values.
C15_RacingInvocations ==
    [][\A t \in Tasks :
          LET p == task'[t].prov
          IN  /\ (/\ task[t].pc = "idle" /\ task'[t].pc # "idle"
                  /\ prov[p].use_cache /\ ~prov[p].has_sync_callable
                  /\ prov[p].value = Empty)
                 => /\ task'[t].pc = "awaiting"
                    /\ task'[t].passed = Some(task'[t].kwargs)
              /\ (/\ task[t].pc = "awaiting" /\ task'[t].pc = "returned"
                  /\ prov[p].use_cache)
                 => /\ task'[t].ret = task'[t].produced
                    /\ prov'[p].value = task'[t].ret
                    /\ writes'[p] = writes[p] + 1]_vars

\* two invocations that both passed the cache check returned different
\* values, and the slot holds the value of the one that completed last
C15_Witness ==
    /\ prov["p"].exists /\ prov["p"].use_cache /\ ~prov["p"].has_sync_callable
    /\ task[1].pc = "returned" /\ task[2].pc = "returned"
    /\ task[1].passed # None /\ task[2].passed # None
    /\ task[1].ret = "a" /\ task[2].ret = "b"
    /\ prov["p"].value = "a"
    /\ writes["p"] = 2

\* the classification a provider gets from __init__
Classification(self) ==
    <<self.has_sync_callable, self.has_sync_generator_dependency,
      self.has_async_generator_dependency>>

\* the providers constructed with sync_to_thread=True from a dependency
\* that is generator-based or already asynchronous
OffloadIgnored ==
    {p \in ProvIds :
        /\ construction[p].called /\ construction[p].raised = ""
        /\ construction[p].sync_to_thread = Some(TRUE)
        /\ \/ isgeneratorfunction(construction[p].dependency)
           \/ isasyncgenfunction(construction[p].dependency)
           \/ is_async_callable(construction[p].dependency)}

\* C16: when sync_to_thread=True is given with a generator-based or already
\* asynchronous dependency, construction emits a warning, stores the
\* original dependency unwrapped, and classifies the provider as it would
\* without the offload request.
C16_OffloadIgnored ==
    \A p \in OffloadIgnored :
        /\ construction[p].warning # ""
        /\ prov[p].dependency = Unwrapped(construction[p].dependency)
        /\ Classification(prov[p]) =
              Classification(Provide_init(p, construction[p].dependency,
                                          construction[p].use_cache, None).self)

\* the providers constructed from a class without an offload request
ClassProviders ==
    {p \in ProvIds :
        /\ construction[p].called /\ construction[p].raised = ""
        /\ isclass(construction[p].dependency)
        /\ construction[p].sync_to_thread # Some(TRUE)}

\* C17 (as claimed): a provider of a class dependency, constructed without
\* an offload request, has has_sync_callable false exactly when the __call__
\* of the class is an async function or an async generator function.
C17_ClassAsClaimed ==
    \A p \in ClassProviders :
        ~prov[p].has_sync_callable
            <=> construction[p].dependency.kind \in {"coroutine", "asyncgen"}

\* C17 (amended): a provider of a class dependency, constructed without an
\* offload request, always has has_sync_callable true and stores the class
\* unwrapped; only the two generator flags follow the __call__ of the class.
C17_ClassIsSynchronous ==
    \A p \in ClassProviders :
        /\ prov[p].has_sync_callable
        /\ prov[p].dependency = Unwrapped(construction[p].dependency)
        /\ prov[p].has_sync_generator_dependency
              <=> construction[p].dependency.kind = "generator"
        /\ prov[p].has_async_generator_dependency
              <=> construction[p].dependency.kind = "asyncgen"

\* a provider of a class whose __call__ is a coroutine function, classified
\* synchronous and invoked
C17_Witness ==
    /\ "p" \in ClassProviders
    /\ construction["p"].dependency.kind = "coroutine"
    /\ prov["p"].has_sync_callable
    /\ \E t \in Started("p") : task[t].pc = "returned" /\ task[t].passed # None

\* C18: when the dependency of a cache-enabled provider raises during an
\* invocation, the invocation raises that exception after the one call it
\* made, the provider and its cached slot are as before, and an invocation
\* that starts while no earlier one has returned calls the dependency again.
C18_RaisePropagates ==
    [][\A t \in Tasks :
          LET p == task'[t].prov
          IN  task'[t].pc # "idle" /\ prov'[p].use_cache =>
                /\ task'[t].produced = Raise <=> task'[t].pc = "raised"
                /\ task[t].pc # "raised" /\ task'[t].pc = "raised" =>
                      /\ prov'[p] = prov[p]
                      /\ writes' = writes
                      /\ task'[t].passed = Some(task'[t].kwargs)
                      /\ task'[t].ret = ""
                /\ (\A u \in Tasks : u < t => task'[u].pc # "returned")
                      => task'[t].passed = Some(task'[t].kwargs)]_vars

\* an invocation of a cache-enabled provider raised with the slot unset, and
\* the next one called the dependency again and cached its value
C18_Witness ==
    /\ prov["p"].exists /\ prov["p"].use_cache
    /\ task[1].pc = "raised" /\ task[1].produced = Raise
    /\ task[2].pc = "returned" /\ task[2].passed = Some(task[2].kwargs)
    /\ prov["p"].value = task[2].ret
    /\ writes["p"] = 1

\* C19: no step after construction changes use_cache, the stored
\* dependency or the classification flags of a provider; finalize leaves
\* the cached slot as it is; an invocation leaves parsed_fn_signature and
\* signature_model as they are.
C19_Frame ==
    [][\A p \in ProvIds :
          prov[p].exists =>
             /\ prov'[p].exists
             /\ prov'[p].use_cache = prov[p].use_cache
             /\ prov'[p].dependency = prov[p].dependency
             /\ prov'[p].sync_to_thread = prov[p].sync_to_thread
             /\ Classification(prov'[p]) = Classification(prov[p])
             /\ collab'[p].finalize # collab[p].finalize =>
                   /\ prov'[p].value = prov[p].value
                   /\ writes'[p] = writes[p]
             /\ task' # task =>
                   /\ prov'[p].parsed_fn_signature = prov[p].parsed_fn_signature
                   /\ prov'[p].signature_model = prov[p].signature_model]_vars

\* a provider with an offloaded dependency was invoked, finalized with a
\* value cached, and invoked again
C19_Witness ==
    /\ prov["p"].exists /\ prov["p"].dependency.wrapped
    /\ prov["p"].value \in Results
    /\ collab["p"].finalize = 1 /\ collab["p"].parsed = 1
    /\ prov["p"].signature_model # None
    /\ task[2].pc = "returned" /\ task[2].passed = None

\* the cache-enabled providers classified synchronous
SyncCached ==
    {p \in ProvIds : prov[p].exists /\ prov[p].use_cache /\ prov[p].has_sync_callable}

\* C20: an invocation of a cache-enabled provider classified synchronous
\* never suspends; however its invocations are scheduled, at most one of
\* them gets a value from the dependency, the slot is written at most once,
\* and every invocation that returns gives the value in the slot.
C20_SynchronousAtomic ==
    \A p \in SyncCached :
        /\ \A t \in Started(p) : task[t].pc # "awaiting"
        /\ Cardinality({t \in Started(p) : task[t].produced \in Results}) <= 1
        /\ writes[p] <= 1
        /\ \A t \in Started(p) :
              task[t].pc = "returned" =>
                 /\ task[t].ret = prov[p].value
                 /\ \E u \in Returned(p) : task[u].produced = task[t].ret

\* three invocations of a synchronous cache-enabled provider: the first
\* raised, the second got None from the dependency, the third got the
\* cached None
C20_Witness ==
    /\ "p" \in SyncCached
    /\ task[1].pc = "raised"
    /\ task[2].pc = "returned" /\ task[2].passed # None /\ task[2].ret = "None"
    /\ task[3].pc = "returned" /\ task[3].passed = None /\ task[3].ret = "None"

====
